---- MODULE Spec2Model ----
(***************************************************************************)
(* The Moment document (moment.py): its insert lifecycle (autoname,        *)
(* validate, before_save, after_insert, on_update), its text processing,   *)
(* and its remote methods like_moment, unlike_moment, add_comment,         *)
(* share_moment and get_moment_feed, over the tables they read and write.  *)
(*                                                                         *)
(* How the host framework's calls are read, as moment.py itself uses them: *)
(*   frappe.throw(msg)          raises: the handler stops there;           *)
(*   frappe.db.exists(dt, f)    whether a row of dt matches f;             *)
(*   frappe.get_doc(dt, f)      a matching row, or a falsy value when none *)
(*                              matches (the code tests `if like:` and     *)
(*                              `if not author_activity:`);                *)
(*   frappe.get_doc({...}).insert()  adds one row;                         *)
(*   self.save()                writes every field of the in-memory        *)
(*                              document over its row;                     *)
(*   now()                      the clock's reading.                       *)
(* A text is a sequence of one-character strings.  A content is a record   *)
(* [none, chars, pad]: Python's None, or the text chars followed by pad    *)
(* space characters (so that a content longer than 2000 characters is a    *)
(* small value).  An unset string field is the empty text, an unset date   *)
(* is 0, an unset counter is Null.                                         *)
(***************************************************************************)
EXTENDS Integers, Sequences, FiniteSets, Bags, TLC

VARIABLES db, ins, req, feed, clock, calls

vars == <<db, ins, req, feed, clock, calls>>

\* ------------------------------------------------------------------ bounds

MaxMoments == 2
MaxCalls == 2
MaxSeqCalls == 4
MaxLimit == 2

\* --------------------------------------------------------------- characters

Lowers == <<"a","b","c","d","e","f","g","h","i","j","k","l","m","n","o","p","q","r","s","t","u","v","w","x","y","z">>
Uppers == <<"A","B","C","D","E","F","G","H","I","J","K","L","M","N","O","P","Q","R","S","T","U","V","W","X","Y","Z">>
Digits == <<"0","1","2","3","4","5","6","7","8","9">>

Range(s) == { s[i] : i \in 1..Len(s) }

\* \w of the regular expressions
WordChars == Range(Lowers) \cup Range(Uppers) \cup Range(Digits) \cup {"_"}

IsWord(c) == c \in WordChars

\* str.lower(), one character
LowerChar(c) ==
    IF c \in Range(Uppers) THEN Lowers[CHOOSE i \in 1..26 : Uppers[i] = c] ELSE c

\* str.lower()
Lower(s) == [i \in 1..Len(s) |-> LowerChar(s[i])]

\* whether text w occurs in text s at position i
MatchAt(s, i, w) ==
    /\ i + Len(w) - 1 <= Len(s)
    /\ \A k \in 1..Len(w) : s[i + k - 1] = w[k]

\* Python's `w in s` for texts
Contains(s, w) == \E i \in 1..(Len(s) + 1) : MatchAt(s, i, w)

\* any(word in s for word in words)
ContainsAny(s, words) == \E k \in 1..Len(words) : Contains(s, words[k])

\* sum(1 for word in words if word in s)
CountIn(s, words) == Cardinality({ k \in 1..Len(words) : Contains(s, words[k]) })

\* the end of the longest run of characters of class cls that starts at i
RunEnd(s, i, cls) ==
    CHOOSE e \in i..Len(s) :
        /\ \A k \in i..e : s[k] \in cls
        /\ (e = Len(s) \/ s[e + 1] \notin cls)

\* the least member of a non-empty set of positions
First(ps) == CHOOSE p \in ps : \A q \in ps : p <= q

\* the positions from i on where sigil + \w starts
TagStarts(sigil, s, i) ==
    { p \in i..(Len(s) - 1) : s[p] = sigil /\ IsWord(s[p + 1]) }

RECURSIVE FindAllFrom(_, _, _)
\* re.findall(sigil + r'(\w+)', s), scanning from position i
FindAllFrom(sigil, s, i) ==
    LET starts == TagStarts(sigil, s, i)
    IN  IF starts = {} THEN <<>>
        ELSE LET p == First(starts)
                 e == RunEnd(s, p + 1, WordChars)
             IN  <<SubSeq(s, p + 1, e)>> \o FindAllFrom(sigil, s, e + 1)

FindAll(sigil, s) == FindAllFrom(sigil, s, 1)

RECURSIVE SubTagFrom(_, _, _, _, _, _)
\* re.sub(sigil + r'(\w+)', pre + r'\1' + mid + r'\1' + post, s), from position i
SubTagFrom(sigil, s, i, pre, mid, post) ==
    LET starts == TagStarts(sigil, s, i)
    IN  IF starts = {} THEN SubSeq(s, i, Len(s))
        ELSE LET p == First(starts)
                 e == RunEnd(s, p + 1, WordChars)
                 w == SubSeq(s, p + 1, e)
             IN  SubSeq(s, i, p - 1) \o pre \o w \o mid \o w \o post
                 \o SubTagFrom(sigil, s, e + 1, pre, mid, post)

RECURSIVE ReplaceFrom(_, _, _, _)
\* str.replace(code, with), from position i
ReplaceFrom(s, i, code, with) ==
    LET starts == { p \in i..Len(s) : MatchAt(s, p, code) }
    IN  IF starts = {} THEN SubSeq(s, i, Len(s))
        ELSE LET p == First(starts)
             IN  SubSeq(s, i, p - 1) \o with
                 \o ReplaceFrom(s, p + Len(code), code, with)

Replace(s, code, with) == ReplaceFrom(s, 1, code, with)

\* ------------------------------------------------------ text processing

Null == -1

\* `x or 0` of a counter
OrZero(x) == IF x = Null THEN 0 ELSE x

NoneContent == [none |-> TRUE, chars |-> <<>>, pad |-> 0]

Text(chars, pad) == [none |-> FALSE, chars |-> chars, pad |-> pad]

\* Python's truth value of a content: None and "" are false
Truthy(content) == ~content.none /\ Len(content.chars) + content.pad > 0

\* len(content), of a content that is not None
ContentLen(content) == Len(content.chars) + content.pad

\* content[:n]
Slice(content, n) ==
    LET k == IF Len(content.chars) < n THEN Len(content.chars) ELSE n
        rest == n - k
    IN  Text(SubSeq(content.chars, 1, k),
             IF content.pad < rest THEN content.pad ELSE rest)

EmojiMap ==
    << <<<<":","s","m","i","l","e",":">>, <<"U+1F60A">>>>,
       <<<<":","h","e","a","r","t",":">>, <<"U+2764","U+FE0F">>>>,
       <<<<":","t","h","u","m","b","s","_","u","p",":">>, <<"U+1F44D">>>>,
       <<<<":","t","h","u","m","b","s","_","d","o","w","n",":">>, <<"U+1F44E">>>>,
       <<<<":","l","a","u","g","h",":">>, <<"U+1F602">>>>,
       <<<<":","a","n","g","r","y",":">>, <<"U+1F620">>>>,
       <<<<":","s","a","d",":">>, <<"U+1F622">>>>,
       <<<<":","l","o","v","e",":">>, <<"U+1F60D">>>> >>

RECURSIVE EmojisFrom(_, _)
EmojisFrom(s, k) ==
    IF k > Len(EmojiMap) THEN s
    ELSE EmojisFrom(Replace(s, EmojiMap[k][1], EmojiMap[k][2]), k + 1)

process_emojis(s) == EmojisFrom(s, 1)

\* the characters the url pattern repeats: letters, digits, the range $-_ ,
\* and @ . & + ! * \ ( ) ,
UrlChars ==
    Range(Lowers) \cup Range(Uppers) \cup Range(Digits) \cup
    {"$","%","&","'","(",")","*","+",",","-",".","/",":",";","<","=",">","?","@",
     "[","\\","]","^","_","!"}

\* the length of the scheme matched at i by http[s]?:// , or 0
SchemeAt(s, i) ==
    IF MatchAt(s, i, <<"h","t","t","p","s",":","/","/">>) THEN 8
    ELSE IF MatchAt(s, i, <<"h","t","t","p",":","/","/">>) THEN 7
    ELSE 0

RECURSIVE LinksFrom(_, _)
LinksFrom(s, i) ==
    LET starts == { p \in i..Len(s) :
                      LET n == SchemeAt(s, p)
                      IN  n > 0 /\ p + n <= Len(s) /\ s[p + n] \in UrlChars }
    IN  IF starts = {} THEN SubSeq(s, i, Len(s))
        ELSE LET p == First(starts)
                 e == RunEnd(s, p + SchemeAt(s, p), UrlChars)
                 url == SubSeq(s, p, e)
             IN  SubSeq(s, i, p - 1)
                 \o <<"<","a"," ","h","r","e","f","=","\"">> \o url
                 \o <<"\""," ","t","a","r","g","e","t","=","\"","_","b","l","a","n","k","\"",">">>
                 \o url \o <<"<","/","a",">">> \o LinksFrom(s, e + 1)

process_links(s) == LinksFrom(s, 1)

process_hashtags(s) ==
    SubTagFrom("#", s, 1,
               <<"<","a"," ","h","r","e","f","=","\"","/","h","a","s","h","t","a","g","/">>,
               <<"\""," ","c","l","a","s","s","=","\"","h","a","s","h","t","a","g","\"",">","#">>,
               <<"<","/","a",">">>)

process_mentions(s) ==
    SubTagFrom("@", s, 1,
               <<"<","a"," ","h","r","e","f","=","\"","/","u","s","e","r","/">>,
               <<"\""," ","c","l","a","s","s","=","\"","m","e","n","t","i","o","n","\"",">","@">>,
               <<"<","/","a",">">>)

InappropriateWords ==
    << <<"s","p","a","m">>, <<"s","c","a","m">>, <<"f","r","a","u","d">>,
       <<"i","l","l","e","g","a","l">>,
       <<"i","n","a","p","p","r","o","p","r","i","a","t","e">> >>

\* contains_inappropriate_content without the lower() (a mutant)
contains_inappropriate_content_cased(content) ==
    IF ~Truthy(content) THEN FALSE
    ELSE ContainsAny(content.chars, InappropriateWords)

contains_inappropriate_content(content) ==
    IF ~Truthy(content) THEN FALSE
    ELSE ContainsAny(Lower(content.chars), InappropriateWords)

PositiveWords ==
    << <<"h","a","p","p","y">>, <<"g","r","e","a","t">>, <<"a","w","e","s","o","m","e">>,
       <<"a","m","a","z","i","n","g">>, <<"l","o","v","e">>,
       <<"e","x","c","e","l","l","e","n","t">>, <<"w","o","n","d","e","r","f","u","l">> >>

NegativeWords ==
    << <<"s","a","d">>, <<"b","a","d">>, <<"t","e","r","r","i","b","l","e">>,
       <<"a","w","f","u","l">>, <<"h","a","t","e">>,
       <<"d","i","s","a","p","p","o","i","n","t","e","d">>, <<"a","n","g","r","y">> >>

analyze_sentiment(content) ==
    IF ~Truthy(content) THEN "neutral"
    ELSE LET lc == Lower(content.chars)
             positive_count == CountIn(lc, PositiveWords)
             negative_count == CountIn(lc, NegativeWords)
         IN  IF positive_count > negative_count THEN "positive"
             ELSE IF negative_count > positive_count THEN "negative"
             ELSE "neutral"

classify_content(content) ==
    IF ~Truthy(content) THEN "text"
    ELSE LET lc == Lower(content.chars)
         IN  IF ContainsAny(lc, << <<"w","o","r","k">>, <<"p","r","o","j","e","c","t">>,
                                   <<"m","e","e","t","i","n","g">>, <<"o","f","f","i","c","e">> >>)
             THEN "work_related"
             ELSE IF ContainsAny(lc, << <<"c","e","l","e","b","r","a","t","i","o","n">>,
                                        <<"p","a","r","t","y">>, <<"b","i","r","t","h","d","a","y">>,
                                        <<"a","n","n","i","v","e","r","s","a","r","y">> >>)
             THEN "celebration"
             ELSE IF ContainsAny(lc, << <<"h","e","l","p">>, <<"s","u","p","p","o","r","t">>,
                                        <<"a","s","s","i","s","t","a","n","c","e">> >>)
             THEN "support"
             ELSE IF ContainsAny(lc, << <<"i","d","e","a">>,
                                        <<"s","u","g","g","e","s","t","i","o","n">>,
                                        <<"f","e","e","d","b","a","c","k">> >>)
             THEN "idea"
             ELSE "general"

\* the safety score, 0 or 1 (0.0 or 1.0 in the code)
analyze_safety(content) ==
    IF ~Truthy(content) THEN 1
    ELSE IF CountIn(Lower(content.chars),
                    << <<"s","p","a","m">>, <<"s","c","a","m">>, <<"f","r","a","u","d">>,
                       <<"i","l","l","e","g","a","l">> >>) > 0
         THEN 0 ELSE 1

\* ------------------------------------------------------------ documents

U1 == <<"u","1">>
U2 == <<"u","2">>
Ghost == <<"g","h","o","s","t">>

\* the rows of the User table
Users == {U1, U2}

NoLocation == [none |-> TRUE, name |-> <<>>, latitude |-> 0, longitude |-> 0]

\* a child table of mention rows, or the JSON string json.dumps gave
Rows(items) == [kind |-> "rows", items |-> items]
Json(items) == [kind |-> "json", items |-> items]
NoJson == [kind |-> "none", items |-> <<>>]

\* Python's truth value of a list field: an empty table and None are false,
\* a JSON string (at least "[]") is true
ListTruthy(f) == f.kind = "json" \/ (f.kind = "rows" /\ f.items # <<>>)

\* a new Moment document with the fields a caller gave
NewDoc(content, attachments, author, moment_type, privacy, status, posted_date, mentions, location) ==
    [ name |-> 0, moment_id |-> 0,
      content |-> content, attachments |-> attachments, author |-> author,
      moment_type |-> moment_type, privacy |-> privacy, status |-> status,
      posted_date |-> posted_date, mentions |-> Rows(mentions),
      location |-> location,
      hashtags |-> NoJson, visibility |-> "", preview |-> <<>>,
      ai_analysis |-> <<>>, engagement_score |-> Null,
      likes_count |-> Null, comments_count |-> Null, shares_count |-> Null,
      views_count |-> Null, external_platform_id |-> "" ]

\* a handler's working state: the in-memory document, the tables, the
\* exception raised ("" while none) and the clock's reading
Ctx(doc, tables, now) == [doc |-> doc, db |-> tables, err |-> "", now |-> now]

\* frappe.throw, or a Python exception
Throw(c, msg) == [c EXCEPT !.err = msg]

\* the next statement runs unless an exception was raised
Then(c, F(_)) == IF c.err # "" THEN c ELSE F(c)

\* one more row in an append-only table
AddRow(table, row) == table (+) SetToBag({row})

\* self.save(): the document's fields over its row
Save(c) == [c EXCEPT !.db.Moment = [n \in DOMAIN @ \cup {c.doc.name} |->
                                       IF n = c.doc.name THEN c.doc ELSE @[n]]]

\* ------------------------------------------------------------- validate

validate_moment_data(c) ==
    IF ~Truthy(c.doc.content) /\ c.doc.attachments = <<>>
    THEN Throw(c, "Moment must have content or attachments")
    ELSE IF c.doc.author = <<>> THEN Throw(c, "Author is required")
    ELSE IF c.doc.moment_type = "" THEN Throw(c, "Moment type is required")
    ELSE c

MaxContentLength == 2000

validate_content(c) ==
    IF Truthy(c.doc.content)
    THEN IF ContentLen(c.doc.content) > MaxContentLength
         THEN Throw(c, "Content cannot exceed 2000 characters")
         ELSE IF contains_inappropriate_content(c.doc.content)
         THEN Throw(c, "Content contains inappropriate material")
         ELSE c
    ELSE c

\* the mention rows are looked up in User; a JSON string would be walked
\* character by character, and a character has no attribute user
validate_mentions(c) ==
    IF ListTruthy(c.doc.mentions)
    THEN IF c.doc.mentions.kind = "json" THEN Throw(c, "AttributeError")
         ELSE IF \E i \in 1..Len(c.doc.mentions.items) :
                    c.doc.mentions.items[i] \notin c.db.User
         THEN Throw(c, "Mentioned user does not exist")
         ELSE c
    ELSE c

validate_location(c) ==
    IF ~c.doc.location.none
    THEN IF c.doc.location.latitude = 0 \/ c.doc.location.longitude = 0
         THEN Throw(c, "Invalid location data")
         ELSE c
    ELSE c

set_defaults(c) ==
    [c EXCEPT !.doc.moment_type = IF @ = "" THEN "Text" ELSE @,
              !.doc.privacy = IF @ = "" THEN "Public" ELSE @,
              !.doc.status = IF @ = "" THEN "Published" ELSE @,
              !.doc.posted_date = IF @ = 0 THEN c.now ELSE @]

validate(c) ==
    Then(Then(Then(Then(validate_moment_data(c), set_defaults), validate_content),
              validate_mentions), validate_location)

\* ------------------------------------------------------------ before_save

process_content(c) ==
    IF Truthy(c.doc.content)
    THEN [c EXCEPT !.doc.content.chars =
             process_mentions(process_hashtags(process_links(process_emojis(@))))]
    ELSE c

create_hashtag_record(c, hashtag) ==
    IF hashtag \notin DOMAIN c.db.Hashtag
    THEN [c EXCEPT !.db.Hashtag = [t \in DOMAIN @ \cup {hashtag} |->
                                       IF t = hashtag THEN 1 ELSE @[t]]]
    ELSE [c EXCEPT !.db.Hashtag[hashtag] = @ + 1]

RECURSIVE HashtagRecordsFrom(_, _, _)
HashtagRecordsFrom(c, hashtags, i) ==
    IF i > Len(hashtags) THEN c
    ELSE HashtagRecordsFrom(create_hashtag_record(c, hashtags[i]), hashtags, i + 1)

extract_hashtags(c) ==
    IF Truthy(c.doc.content)
    THEN LET hashtags == FindAll("#", c.doc.content.chars)
         IN  HashtagRecordsFrom([c EXCEPT !.doc.hashtags = Json(hashtags)], hashtags, 1)
    ELSE c

create_mention_record(c, mention) ==
    [c EXCEPT !.db.Mention =
        AddRow(@, [moment |-> c.doc.name, mentioned_user |-> mention])]

RECURSIVE MentionRecordsFrom(_, _, _)
MentionRecordsFrom(c, mentions, i) ==
    IF i > Len(mentions) THEN c
    ELSE MentionRecordsFrom(create_mention_record(c, mentions[i]), mentions, i + 1)

extract_mentions(c) ==
    IF Truthy(c.doc.content)
    THEN LET mentions == FindAll("@", c.doc.content.chars)
         IN  MentionRecordsFrom([c EXCEPT !.doc.mentions = Json(mentions)], mentions, 1)
    ELSE c

set_privacy_settings(c) ==
    [c EXCEPT !.doc.visibility =
        IF c.doc.privacy = "Private" THEN "Author Only"
        ELSE IF c.doc.privacy = "Friends" THEN "Friends Only"
        ELSE IF c.doc.privacy = "Department" THEN "Department Only"
        ELSE "Public"]

PreviewLength == 100

\* len(None) and json.loads(<a list of rows>) raise TypeError
generate_preview(c) ==
    IF c.doc.content.none THEN Throw(c, "TypeError")
    ELSE IF ListTruthy(c.doc.mentions) /\ c.doc.mentions.kind = "rows"
    THEN Throw(c, "TypeError")
    ELSE [c EXCEPT !.doc.preview =
            << [ content_preview |->
                    IF ContentLen(c.doc.content) > PreviewLength
                    THEN [head |-> Slice(c.doc.content, PreviewLength),
                          tail |-> <<".",".",".">>]
                    ELSE [head |-> c.doc.content, tail |-> <<>>],
                 attachment_count |->
                    IF c.doc.attachments # <<>> THEN Len(c.doc.attachments) ELSE 0,
                 hashtag_count |->
                    IF ListTruthy(c.doc.hashtags) THEN Len(c.doc.hashtags.items) ELSE 0,
                 mention_count |->
                    IF ListTruthy(c.doc.mentions) THEN Len(c.doc.mentions.items) ELSE 0,
                 location |->
                    IF ~c.doc.location.none THEN c.doc.location.name ELSE <<>> ] >>]

before_save(c) ==
    Then(Then(Then(Then(process_content(c), extract_hashtags), extract_mentions),
              set_privacy_settings), generate_preview)

\* ----------------------------------------------------------- after_insert

Notify(c, user, notification_type) ==
    [c EXCEPT !.db.Notification =
        AddRow(@, [user |-> user, moment |-> c.doc.name,
                   notification_type |-> notification_type])]

send_mention_notification(c, mentioned_user) == Notify(c, mentioned_user, "Mention")

RECURSIVE MentionNotificationsFrom(_, _, _)
MentionNotificationsFrom(c, mentions, i) ==
    IF i > Len(mentions) THEN c
    ELSE MentionNotificationsFrom(send_mention_notification(c, mentions[i]), mentions, i + 1)

\* one notification for each User Follow row whose following is the author
send_follower_notifications(c) ==
    [c EXCEPT !.db.Notification =
        @ (+) SetToBag({ [user |-> f.follower, moment |-> c.doc.name,
                          notification_type |-> "New Moment"] :
                         f \in { g \in c.db.Follow : g.following = c.doc.author } })]

\* Employee holds at most one row for a user; department "" is SQL's NULL
send_department_notifications(c) ==
    LET author_department ==
            IF c.doc.author \in DOMAIN c.db.Employee
            THEN c.db.Employee[c.doc.author] ELSE ""
    IN  IF author_department # ""
        THEN [c EXCEPT !.db.Notification =
                @ (+) SetToBag({ [user |-> u, moment |-> c.doc.name,
                                  notification_type |-> "Department Moment"] :
                                 u \in { v \in DOMAIN c.db.Employee :
                                           /\ c.db.Employee[v] = author_department
                                           /\ v # c.doc.author } })]
        ELSE c

send_notifications(c) ==
    LET mentioned ==
            IF ListTruthy(c.doc.mentions)
            THEN IF c.doc.mentions.kind = "rows" THEN Throw(c, "TypeError")
                 ELSE MentionNotificationsFrom(c, c.doc.mentions.items, 1)
            ELSE c
        followers == Then(mentioned, send_follower_notifications)
    IN  IF c.doc.privacy = "Department"
        THEN Then(followers, send_department_notifications)
        ELSE followers

update_user_activity(c) ==
    LET moments_count ==
            IF c.doc.author \in DOMAIN c.db.UserActivity
            THEN c.db.UserActivity[c.doc.author] ELSE 0
    IN  [c EXCEPT !.db.UserActivity =
            [u \in DOMAIN @ \cup {c.doc.author} |->
                IF u = c.doc.author THEN moments_count + 1 ELSE @[u]]]

create_activity_log(c) ==
    [c EXCEPT !.db.Activity =
        AddRow(@, [moment |-> c.doc.name, activity_type |-> "Created",
                   user |-> c.doc.author])]

process_ai_analysis(c) ==
    Save([c EXCEPT !.doc.ai_analysis =
            << [ sentiment |-> analyze_sentiment(c.doc.content),
                 content_type |-> classify_content(c.doc.content),
                 safety_score |-> analyze_safety(c.doc.content),
                 analysis_date |-> c.now ] >>])

after_insert(c) ==
    Then(Then(Then(send_notifications(c), update_user_activity), create_activity_log),
         process_ai_analysis)

\* -------------------------------------------------------------- on_update

\* the engagement score in tenths: likes + 2 comments + 3 shares + 0.1 views
calculate_engagement_score(doc) ==
    10 * OrZero(doc.likes_count) + 20 * OrZero(doc.comments_count)
    + 30 * OrZero(doc.shares_count) + OrZero(doc.views_count)

update_engagement_metrics(c) ==
    Save([c EXCEPT !.doc.engagement_score = calculate_engagement_score(c.doc)])

\* sync_with_external_platform is `pass`
sync_moment_data(c) == c

on_update(c) == Then(update_engagement_metrics(c), sync_moment_data)

\* --------------------------------------------------------------- autoname

autoname(c) ==
    LET named == IF c.doc.moment_id = 0
                 THEN [c EXCEPT !.db.series = @ + 1, !.doc.moment_id = c.db.series + 1]
                 ELSE c
    IN  [named EXCEPT !.doc.name = named.doc.moment_id]

\* the row of a new document
db_insert(c) == Save(c)

\* Document.insert(): the hooks in the order the framework runs them
RunInsert(c) ==
    Then(Then(Then(Then(Then(autoname(c), validate), before_save), db_insert),
              after_insert), on_update)

\* ------------------------------------------------------------ the tables

\* a site with no rows but its users
EmptyDb ==
    [ Moment |-> <<>>, Hashtag |-> <<>>, Mention |-> EmptyBag,
      Notification |-> EmptyBag, Activity |-> EmptyBag, UserActivity |-> <<>>,
      Like |-> {}, Comment |-> EmptyBag, Share |-> EmptyBag,
      User |-> Users, Follow |-> {}, Employee |-> <<>>, series |-> 0 ]

\* a site in use: U2 follows U1, both work in department A, the hashtag t
\* has been used once and U1 has posted three moments before
UsedDb ==
    [ EmptyDb EXCEPT !.Hashtag = [h \in {<<"t">>} |-> 1],
                     !.UserActivity = [u \in {U1} |-> 3],
                     !.Follow = {[follower |-> U2, following |-> U1]},
                     !.Employee = [u \in {U1, U2} |-> "A"] ]

\* the tables a Moment insert writes besides its own row
SideTables(tables) ==
    <<tables.Hashtag, tables.Mention, tables.Notification, tables.Activity,
      tables.UserActivity>>

\* --------------------------------------------------- the insert lifecycle

NoDoc == NewDoc(NoneContent, <<>>, <<>>, "", "", "", 0, <<>>, NoLocation)

IdleInsert == [pc |-> "idle", draft |-> NoDoc, doc |-> NoDoc, err |-> "", at |-> ""]

\* the requests that may be in progress at once
Slots == {"r1", "r2"}

NoRequest ==
    [ pc |-> "idle", op |-> "", user |-> <<>>, comment |-> <<>>, doc |-> NoDoc,
      like |-> 0, status |-> "", result |-> Null,
      base |-> [row |-> NoDoc, likes |-> {}, comments |-> 0, shares |-> 0,
                notifications |-> 0] ]

\* the response of get_moment_feed on its way to the caller: none
NoFeed == [called |-> FALSE, user |-> <<>>, limit |-> 0, offset |-> 0, rows |-> <<>>]

\* one hook of Document.insert(), run on the document being inserted
InsertStep(from, to, hook, c) ==
    /\ ins.pc = from
    /\ db' = c.db
    /\ ins' = [ins EXCEPT !.doc = c.doc, !.err = c.err,
                          !.pc = IF c.err # "" THEN "failed" ELSE to,
                          !.at = IF c.err # "" THEN hook ELSE ""]
    /\ UNCHANGED <<req, feed, clock, calls>>

\* frappe.get_doc({...}): a new document, about to be inserted
NewMoment(d) ==
    /\ ins.pc \in {"idle", "done", "failed"}
    /\ ~feed.called
    /\ db.series < MaxMoments
    /\ ins' = [pc |-> "new", draft |-> d, doc |-> d, err |-> "", at |-> ""]
    /\ clock' = clock + 1
    /\ UNCHANGED <<db, req, feed, calls>>

Autoname ==
    InsertStep("new", "named", "autoname", autoname(Ctx(ins.doc, db, clock)))

Validate ==
    InsertStep("named", "validated", "validate", validate(Ctx(ins.doc, db, clock)))

BeforeSave ==
    InsertStep("validated", "before_saved", "before_save", before_save(Ctx(ins.doc, db, clock)))

DbInsert ==
    InsertStep("before_saved", "inserted", "db_insert", db_insert(Ctx(ins.doc, db, clock)))

AfterInsert ==
    InsertStep("inserted", "after_inserted", "after_insert", after_insert(Ctx(ins.doc, db, clock)))

OnUpdate ==
    InsertStep("after_inserted", "done", "on_update", on_update(Ctx(ins.doc, db, clock)))

\* ------------------------------------- inserting one moment, any draft

InsertContents ==
    { NoneContent, Text(<<>>, 0),
      Text(<<"a">>, 0), Text(<<"a">>, 1999), Text(<<"a">>, 2000),
      Text(<<"s","P","a","M">>, 0),
      Text(<<"#","t"," ","@","u","2"," ","#","t">>, 0),
      Text(<<"@","g","h","o","s","t">>, 0),
      Text(<<"h","t","t","p",":","/","/","x"," ",":","s","a","d",":">>, 0) }

Home == [none |-> FALSE, name |-> <<"h","q">>, latitude |-> 1, longitude |-> 2]

InsertDrafts ==
    { NewDoc(content, attachments, author, moment_type, privacy, status, posted_date,
             mentions, location) :
        content \in InsertContents,
        attachments \in {<<>>, <<"f1">>, <<"f1", "f2">>},
        author \in {<<>>, U1},
        moment_type \in {"", "Text"},
        privacy \in {"", "Department", "Private"},
        status \in {"", "Draft"},
        posted_date \in {0, 7},
        mentions \in {<<>>, <<U2>>, <<Ghost>>},
        location \in {NoLocation, Home, [Home EXCEPT !.latitude = 0]} }

InitInsert ==
    /\ db \in {EmptyDb, UsedDb}
    /\ \E d \in InsertDrafts :
          ins = [pc |-> "new", draft |-> d, doc |-> d, err |-> "", at |-> ""]
    /\ req = [r \in Slots |-> NoRequest]
    /\ feed = NoFeed
    /\ clock = 1
    /\ calls = 0

NextInsert ==
    \/ Autoname
    \/ Validate
    \/ BeforeSave
    \/ DbInsert
    \/ AfterInsert
    \/ OnUpdate

SpecInsert == InitInsert /\ [][NextInsert]_vars

\* ------------------------------------------------------ remote methods

\* the Moment Like rows of a moment and a user
LikesOf(tables, moment, user) ==
    { l \in tables.Like : l.moment = moment /\ l.user = user }

\* the numbers of rows that refer to a moment
CommentsOn(tables, moment) ==
    BagCardinality([r \in { x \in BagToSet(tables.Comment) : x.moment = moment } |->
                       CopiesIn(r, tables.Comment)])

SharesOn(tables, moment) ==
    BagCardinality([r \in { x \in BagToSet(tables.Share) : x.moment = moment } |->
                       CopiesIn(r, tables.Share)])

NotificationsOn(tables, moment) ==
    BagCardinality([r \in { x \in BagToSet(tables.Notification) : x.moment = moment } |->
                       CopiesIn(r, tables.Notification)])

\* a name for a new Moment Like row: one no row and no request holds
FreshLike == CHOOSE n \in 1..(Cardinality(db.Like) + Cardinality(Slots) + 1) :
                /\ \A l \in db.Like : l.id # n
                /\ \A q \in Slots : req[q].like # n

\* the framework loads the moment and calls the method on it
Call(r, limit, op, m, user, comment) ==
    /\ req[r].pc = "idle"
    /\ calls < limit
    /\ m \in DOMAIN db.Moment
    /\ calls' = calls + 1
    /\ req' = [req EXCEPT ![r] =
                 [NoRequest EXCEPT !.pc = "called", !.op = op, !.user = user,
                                   !.comment = comment, !.doc = db.Moment[m],
                                   !.base = [row |-> db.Moment[m],
                                             likes |-> db.Like,
                                             comments |-> CommentsOn(db, m),
                                             shares |-> SharesOn(db, m),
                                             notifications |-> NotificationsOn(db, m)]]]
    /\ UNCHANGED <<db, ins, feed, clock>>

\* one statement of a method: the request moves on, or ends
RpcStep(r, op, from, to, c, like, status, result) ==
    /\ req[r].pc = from
    /\ req[r].op = op
    /\ db' = c.db
    /\ req' = [req EXCEPT ![r].doc = c.doc, ![r].pc = to, ![r].like = like,
                          ![r].status = status, ![r].result = result]
    /\ UNCHANGED <<ins, feed, clock, calls>>

RpcCtx(r) == Ctx(req[r].doc, db, clock)

\* the response is sent
Return(r) ==
    /\ req[r].pc = "done"
    /\ req' = [req EXCEPT ![r] = NoRequest]
    /\ UNCHANGED <<db, ins, feed, clock, calls>>

\* --- like_moment

\* the check made for the author instead of the caller (a mutant)
like_exists_by_author(c, user) == LikesOf(c.db, c.doc.name, c.doc.author) # {}

\* frappe.db.exists("Moment Like", {"moment": self.name, "user": user})
like_exists(c, user) == LikesOf(c.db, c.doc.name, user) # {}

LikeCheck(r) ==
    IF like_exists(RpcCtx(r), req[r].user)
    THEN RpcStep(r, "like", "called", "done", RpcCtx(r), 0, "error", Null)
    ELSE RpcStep(r, "like", "called", "like_insert", RpcCtx(r), 0, "", Null)

like_insert(c, user, id) ==
    [c EXCEPT !.db.Like = @ \cup {[id |-> id, moment |-> c.doc.name, user |-> user]}]

LikeInsert(r) ==
    RpcStep(r, "like", "like_insert", "like_save",
            like_insert(RpcCtx(r), req[r].user, FreshLike), 0, "", Null)

\* the like count taken from the row, not from the loaded copy (a mutant)
like_save_from_row(c) ==
    Save([c EXCEPT !.doc.likes_count = OrZero(c.db.Moment[c.doc.name].likes_count) + 1])

like_save(c) == Save([c EXCEPT !.doc.likes_count = OrZero(@) + 1])

LikeSave(r) ==
    RpcStep(r, "like", "like_save", "like_notify", like_save(RpcCtx(r)), 0, "", Null)

\* the notification to the author, unless the author is the caller
notify_author(c, user, notification_type) ==
    IF user # c.doc.author THEN Notify(c, c.doc.author, notification_type) ELSE c

LikeNotify(r) ==
    RpcStep(r, "like", "like_notify", "done",
            notify_author(RpcCtx(r), req[r].user, "Like"),
            0, "success", req[r].doc.likes_count)

\* --- unlike_moment

\* frappe.get_doc("Moment Like", {...}): the names of the rows it may return
unlike_get(c, user) == { l.id : l \in LikesOf(c.db, c.doc.name, user) }

UnlikeGet(r) ==
    \/ /\ unlike_get(RpcCtx(r), req[r].user) = {}
       /\ RpcStep(r, "unlike", "called", "done", RpcCtx(r), 0, "success",
                  req[r].doc.likes_count)
    \/ \E id \in unlike_get(RpcCtx(r), req[r].user) :
          RpcStep(r, "unlike", "called", "unlike_delete", RpcCtx(r), id, "", Null)

\* like.delete(): the row goes, if it is still there
unlike_delete(c, id) == [c EXCEPT !.db.Like = { l \in @ : l.id # id }]

UnlikeDelete(r) ==
    RpcStep(r, "unlike", "unlike_delete", "unlike_save",
            unlike_delete(RpcCtx(r), req[r].like), 0, "", Null)

\* the decrement without the floor at 0 (a mutant)
unlike_save_unfloored(c) == Save([c EXCEPT !.doc.likes_count = OrZero(@) - 1])

unlike_save(c) ==
    Save([c EXCEPT !.doc.likes_count = IF OrZero(@) - 1 > 0 THEN OrZero(@) - 1 ELSE 0])

UnlikeSave(r) ==
    LET c == unlike_save(RpcCtx(r))
    IN  RpcStep(r, "unlike", "unlike_save", "done", c, 0, "success", c.doc.likes_count)

\* --- add_comment

comment_insert(c, user, comment_content) ==
    IF comment_content = <<>> THEN Throw(c, "Comment content is required")
    ELSE [c EXCEPT !.db.Comment =
            AddRow(@, [moment |-> c.doc.name, user |-> user, comment |-> comment_content])]

CommentInsert(r) ==
    LET c == comment_insert(RpcCtx(r), req[r].user, req[r].comment)
    IN  IF c.err # ""
        THEN RpcStep(r, "comment", "called", "done", c, 0, "error", Null)
        ELSE RpcStep(r, "comment", "called", "comment_save", c, 0, "", Null)

\* a count of 2 per comment (a mutant)
comment_save_twice(c) == Save([c EXCEPT !.doc.comments_count = OrZero(@) + 2])

comment_save(c) == Save([c EXCEPT !.doc.comments_count = OrZero(@) + 1])

CommentSave(r) ==
    RpcStep(r, "comment", "comment_save", "comment_notify", comment_save(RpcCtx(r)),
            0, "", Null)

CommentNotify(r) ==
    RpcStep(r, "comment", "comment_notify", "done",
            notify_author(RpcCtx(r), req[r].user, "Comment"),
            0, "success", req[r].doc.comments_count)

\* --- share_moment

share_insert(c, user) ==
    [c EXCEPT !.db.Share = AddRow(@, [moment |-> c.doc.name, user |-> user])]

ShareInsert(r) ==
    RpcStep(r, "share", "called", "share_save", share_insert(RpcCtx(r), req[r].user),
            0, "", Null)

share_save(c) == Save([c EXCEPT !.doc.shares_count = OrZero(@) + 1])

ShareSave(r) ==
    RpcStep(r, "share", "share_save", "share_notify", share_save(RpcCtx(r)), 0, "", Null)

ShareNotify(r) ==
    RpcStep(r, "share", "share_notify", "done",
            notify_author(RpcCtx(r), req[r].user, "Share"),
            0, "success", req[r].doc.shares_count)

\* ------------------------------------------------ the methods, one moment

Hi == NewDoc(Text(<<"h","i">>, 0), <<>>, U1, "Text", "", "", 0, <<>>, NoLocation)

Yo == NewDoc(Text(<<"y","o">>, 0), <<"f1">>, U2, "Photo", "Private", "", 0, <<>>, NoLocation)

\* the site after U1 posted the moment Hi
RpcDb == RunInsert(Ctx(Hi, UsedDb, 1)).db

\* and after U2 then posted the moment Yo
RpcDb2 == RunInsert(Ctx(Yo, RpcDb, 2)).db

InitRpc(tables, now) ==
    /\ db = tables
    /\ ins = IdleInsert
    /\ req = [r \in Slots |-> NoRequest]
    /\ feed = NoFeed
    /\ clock = now
    /\ calls = 0

Inputs(op) == IF op = "comment" THEN {<<>>, <<"o","k">>} ELSE {<<>>}

Method(r, limit) ==
    \/ \E op \in {"like", "unlike", "comment", "share"}, m \in DOMAIN db.Moment,
          user \in Users :
          \E comment \in Inputs(op) : Call(r, limit, op, m, user, comment)
    \/ LikeCheck(r)
    \/ LikeInsert(r)
    \/ LikeSave(r)
    \/ LikeNotify(r)
    \/ UnlikeGet(r)
    \/ UnlikeDelete(r)
    \/ UnlikeSave(r)
    \/ CommentInsert(r)
    \/ CommentSave(r)
    \/ CommentNotify(r)
    \/ ShareInsert(r)
    \/ ShareSave(r)
    \/ ShareNotify(r)
    \/ Return(r)

\* one request at a time
NextSeq == Method("r1", MaxSeqCalls)

\* the same site after U1 and U2 liked Hi at the same time, both requests
\* having loaded the moment before either saved: two rows, a count of 1
RacedDb ==
    LET a == like_insert(Ctx(RpcDb2.Moment[1], RpcDb2, 3), U1, 1)
        b == like_insert(Ctx(RpcDb2.Moment[1], a.db, 3), U2, 2)
        c == notify_author(like_save([a EXCEPT !.db = b.db]), U1, "Like")
        d == notify_author(like_save([b EXCEPT !.db = c.db]), U2, "Like")
    IN  d.db

InitSeq == \E tables \in {RpcDb2, RacedDb} : InitRpc(tables, 3)

SpecSeq == InitSeq /\ [][NextSeq]_vars

\* two requests, their statements interleaved
NextConc == \E r \in Slots : Method(r, MaxCalls)

InitConc == InitRpc(RpcDb, 2)

SpecConc == InitConc /\ [][NextConc]_vars

\* ---------------------------------------------------------- the feed

\* SELECT following FROM `tabUser Follow` WHERE follower = user
Following(tables, user) == { f.following : f \in { g \in tables.Follow : g.follower = user } }

\* SELECT e.user FROM tabEmployee e WHERE e.department =
\*   (SELECT department FROM tabEmployee WHERE user = user):
\* a comparison with NULL (no row, or no department) selects nothing
Colleagues(tables, user) ==
    IF user \in DOMAIN tables.Employee /\ tables.Employee[user] # ""
    THEN { e \in DOMAIN tables.Employee : tables.Employee[e] = tables.Employee[user] }
    ELSE {}

\* the Friends branch without its privacy test (a mutant)
FeedWhereLoose(tables, user, m) ==
    \/ m.privacy = "Public"
    \/ m.author \in Following(tables, user)
    \/ m.privacy = "Department" /\ m.author \in Colleagues(tables, user)

\* the WHERE clause
FeedWhere(tables, user, m) ==
    \/ m.privacy = "Public"
    \/ m.privacy = "Friends" /\ m.author \in Following(tables, user)
    \/ m.privacy = "Department" /\ m.author \in Colleagues(tables, user)

\* the sequences without repetition of the members of a set
RECURSIVE Orders(_)
Orders(S) ==
    IF S = {} THEN {<<>>}
    ELSE UNION { { <<x>> \o t : t \in Orders(S \ {x}) } : x \in S }

\* ORDER BY m.posted_date DESC: any order that respects it
FeedOrders(tables, names) ==
    { s \in Orders(names) :
        \A i \in 1..(Len(s) - 1) :
            tables.Moment[s[i]].posted_date >= tables.Moment[s[i + 1]].posted_date }

\* LIMIT limit OFFSET offset
LimitOffset(s, limit, offset) ==
    SubSeq(s, offset + 1, IF offset + limit < Len(s) THEN offset + limit ELSE Len(s))

\* the results the query may give
get_moment_feed(tables, user, limit, offset) ==
    { LimitOffset(s, limit, offset) :
        s \in FeedOrders(tables, { n \in DOMAIN tables.Moment :
                                      FeedWhere(tables, user, tables.Moment[n]) }) }

\* the requests run one at a time: a query sees the rows of the requests
\* that have ended
GetMomentFeed(user, limit, offset) ==
    /\ ins.pc \in {"idle", "done", "failed"}
    /\ ~feed.called
    /\ \E rows \in get_moment_feed(db, user, limit, offset) :
          feed' = [called |-> TRUE, user |-> user, limit |-> limit,
                   offset |-> offset, rows |-> rows]
    /\ UNCHANGED <<db, ins, req, clock, calls>>

\* the response is sent
FeedReturn ==
    /\ feed.called
    /\ feed' = NoFeed
    /\ UNCHANGED <<db, ins, req, clock, calls>>

FeedDraft(author, privacy, posted_date) ==
    NewDoc(Text(<<"h","i">>, 0), <<>>, author, "Text", privacy, "", posted_date,
           <<>>, NoLocation)

FeedDrafts ==
    { FeedDraft(author, "", posted_date) : author \in Users, posted_date \in {0, 1} }
    \cup { FeedDraft(U1, "Friends", 0), FeedDraft(U2, "Friends", 0),
           FeedDraft(U1, "Department", 0), FeedDraft(U2, "Department", 1),
           FeedDraft(U1, "Private", 1), FeedDraft(U2, "Private", 0) }

\* who follows whom and who works where
FeedSites ==
    { [EmptyDb EXCEPT !.Employee = [u \in {U1, U2} |-> "A"]],
      [EmptyDb EXCEPT !.Follow = {[follower |-> U2, following |-> U1]},
                      !.Employee = [u \in {U1, U2} |-> IF u = U1 THEN "A" ELSE "B"]],
      [EmptyDb EXCEPT !.Follow = {[follower |-> U2, following |-> U1]},
                      !.Employee = [u \in {U1} |-> "A"]],
      [EmptyDb EXCEPT !.Follow = {[follower |-> U1, following |-> U2]},
                      !.Employee = [u \in {U2} |-> "A"]],
      [EmptyDb EXCEPT !.Follow = {[follower |-> U2, following |-> U1]},
                      !.Employee = [u \in {U1, U2} |-> ""]] }

InitFeed ==
    /\ db \in FeedSites
    /\ ins = IdleInsert
    /\ req = [r \in Slots |-> NoRequest]
    /\ feed = NoFeed
    /\ clock = 1
    /\ calls = 0

NextFeed ==
    \/ \E d \in FeedDrafts : NewMoment(d)
    \/ Autoname
    \/ Validate
    \/ BeforeSave
    \/ DbInsert
    \/ AfterInsert
    \/ OnUpdate
    \/ \E user \in Users, limit \in 0..MaxLimit, offset \in {0, 1} :
          GetMomentFeed(user, limit, offset)
    \/ FeedReturn

SpecFeed == InitFeed /\ [][NextFeed]_vars

\* ================================================================ claims

\* the request in slot r is a finished call of method op
Finished(r, op) == req[r].op = op /\ req[r].pc = "done"

\* the Moment Like rows of the request's moment and caller when it was called
LikedAtCall(r) ==
    { l \in req[r].base.likes : l.moment = req[r].doc.name /\ l.user = req[r].user }

\* C1: liking twice is rejected.  A like_moment call made while a Moment Like
\* row of its moment and caller exists ends in an error, and leaves the Moment
\* Like rows, the moment's notifications and its likes_count as they were; with
\* the calls run one at a time, no moment ever has two Moment Like rows of one
\* user.
C1_LikeTwiceRejected ==
    /\ \A m \in DOMAIN db.Moment, u \in Users : Cardinality(LikesOf(db, m, u)) <= 1
    /\ \A r \in Slots :
          (req[r].op = "like" /\ req[r].pc # "called" /\ LikedAtCall(r) # {}) =>
             /\ req[r].pc = "done"
             /\ req[r].status = "error"
             /\ db.Like = req[r].base.likes
             /\ NotificationsOn(db, req[r].doc.name) = req[r].base.notifications
             /\ db.Moment[req[r].doc.name].likes_count = req[r].base.row.likes_count

\* U2 likes the moment Hi a second time and is refused
C1_Witness ==
    /\ Finished("r1", "like")
    /\ req["r1"].user = U2
    /\ req["r1"].doc.name = 1
    /\ req["r1"].status = "error"
    /\ Cardinality(LikesOf(db, 1, U2)) = 1
    /\ db.Moment[1].likes_count = 1

\* C2: the comment count increments by one.  With the calls run one at a time,
\* an add_comment call with a comment that has ended has added exactly one
\* Moment Comment row to its moment, and returns and has stored a
\* comments_count one above the count the moment had when it was called (unset
\* counting as 0); a call with an empty comment ends in an error with the rows
\* and the count as they were.
C2_CommentCountIncrements ==
    \A r \in Slots :
        Finished(r, "comment") =>
            LET n == req[r].doc.name
                before == req[r].base.row.comments_count
            IN  IF req[r].comment # <<>>
                THEN /\ req[r].status = "success"
                     /\ CommentsOn(db, n) = req[r].base.comments + 1
                     /\ req[r].result = OrZero(before) + 1
                     /\ db.Moment[n].comments_count = OrZero(before) + 1
                ELSE /\ req[r].status = "error"
                     /\ CommentsOn(db, n) = req[r].base.comments
                     /\ db.Moment[n].comments_count = before

\* the second comment on the moment Hi: the count goes from 1 to 2
C2_Witness ==
    /\ Finished("r1", "comment")
    /\ req["r1"].status = "success"
    /\ req["r1"].base.row.comments_count = 1
    /\ req["r1"].result = 2
    /\ CommentsOn(db, req["r1"].doc.name) = 2

\* the counter a method keeps
Counter(doc, op) ==
    IF op = "like" THEN doc.likes_count
    ELSE IF op = "comment" THEN doc.comments_count
    ELSE doc.shares_count

\* two finished, successful calls of one counting method on one moment, each
\* having loaded the moment with the same count
Raced(r, q, op) ==
    /\ r # q
    /\ Finished(r, op) /\ Finished(q, op)
    /\ req[r].status = "success" /\ req[q].status = "success"
    /\ req[r].doc.name = req[q].doc.name
    /\ Counter(req[r].base.row, op) = Counter(req[q].base.row, op)

\* C3: the counters are incremented by read-modify-save with no contention
\* control.  Whenever two like_moment calls (or two add_comment calls, or two
\* share_moment calls) on one moment have both loaded it with the same count
\* and both succeeded, the stored count is one above that count, though each
\* call has added its row: one update is lost.
C3_LostUpdate ==
    \A r, q \in Slots : \A op \in {"like", "comment", "share"} :
        Raced(r, q, op) =>
            Counter(db.Moment[req[r].doc.name], op)
                = OrZero(Counter(req[r].base.row, op)) + 1

\* U1 and U2, neither having liked Hi before, like it at the same time: two
\* Moment Like rows, a likes_count of 1
C3_Witness ==
    /\ Raced("r1", "r2", "like")
    /\ req["r1"].user # req["r2"].user
    /\ LikedAtCall("r1") = {} /\ LikedAtCall("r2") = {}
    /\ req["r1"].base.row.likes_count = Null
    /\ Cardinality({ l \in db.Like : l.moment = req["r1"].doc.name }) = 2
    /\ db.Moment[req["r1"].doc.name].likes_count = 1

\* the same for two comments and for two shares
C3_CommentsLost ==
    /\ Raced("r1", "r2", "comment")
    /\ CommentsOn(db, req["r1"].doc.name) = 2
    /\ db.Moment[req["r1"].doc.name].comments_count = 1

C3_SharesLost ==
    /\ Raced("r1", "r2", "share")
    /\ SharesOn(db, req["r1"].doc.name) = 2
    /\ db.Moment[req["r1"].doc.name].shares_count = 1

C4_Words ==
    << <<"s","p","a","m">>, <<"s","c","a","m">>, <<"f","r","a","u","d">>,
       <<"i","l","l","e","g","a","l">>,
       <<"i","n","a","p","p","r","o","p","r","i","a","t","e">> >>

\* a draft with neither content nor attachments, or no author, or a content of
\* more than 2000 characters, or one of the words in its content, in any case
C4_Rejected(d) ==
    \/ ~Truthy(d.content) /\ d.attachments = <<>>
    \/ d.author = <<>>
    \/ ~d.content.none /\ Len(d.content.chars) + d.content.pad > 2000
    \/ ~d.content.none /\
          \E k \in 1..Len(C4_Words) : Contains(Lower(d.content.chars), C4_Words[k])

\* C4: validation aborts and reports.  The insert of such a draft never gets
\* past validate: it fails there, and no step of it creates or changes a
\* Hashtag, Moment Mention, Moment Notification, Moment Activity or User
\* Activity row.
C4_ValidationAborts ==
    /\ [](C4_Rejected(ins.draft) =>
            /\ ins.pc \in {"new", "named", "failed"}
            /\ ins.pc = "failed" => ins.at = "validate")
    /\ [][C4_Rejected(ins.draft) => SideTables(db') = SideTables(db)]_vars

\* a content with sPaM in it is refused on a site in use, its tables untouched
C4_Witness ==
    /\ ins.pc = "failed"
    /\ ins.at = "validate"
    /\ ins.err = "Content contains inappropriate material"
    /\ ins.draft.content.chars = <<"s","P","a","M">>
    /\ ins.draft.attachments # <<>>
    /\ SideTables(db) = SideTables(UsedDb)

\* C5: an invalid mention is rejected.  After a successful insert every
\* mentioned_user of a Moment Mention row of the moment and every recipient of
\* a Mention notification for it is a User, the users mentioned as @name in
\* the content included.
C5_MentionedUsersExist ==
    ins.pc = "done" =>
        /\ \A r \in BagToSet(db.Mention) :
              r.moment = ins.doc.name => r.mentioned_user \in db.User
        /\ \A n \in BagToSet(db.Notification) :
              (n.moment = ins.doc.name /\ n.notification_type = "Mention")
                 => n.user \in db.User

\* a draft with a valid content and an author, with no moment_type, privacy,
\* status and posted_date (and no mention rows and no location)
C6_Draft(d) ==
    /\ Truthy(d.content)
    /\ ~C4_Rejected(d)
    /\ d.moment_type = "" /\ d.privacy = "" /\ d.status = "" /\ d.posted_date = 0
    /\ d.mentions.items = <<>>
    /\ d.location.none

\* C6: set_defaults sets the defaults of a new moment.  Once validate has run
\* on such a draft, it has not failed and the moment is a Text, Public,
\* Published one posted now.
C6_DefaultsSet ==
    (C6_Draft(ins.draft) /\ ins.pc \notin {"new", "named"}) =>
        /\ ~(ins.pc = "failed" /\ ins.at = "validate")
        /\ ins.doc.moment_type = "Text"
        /\ ins.doc.privacy = "Public"
        /\ ins.doc.status = "Published"
        /\ ins.doc.posted_date = clock

\* a draft with attachments, an author and a moment_type and no content (and
\* no mention rows and no location)
C7_Draft(d) ==
    /\ d.attachments # <<>>
    /\ d.author # <<>>
    /\ d.moment_type # ""
    /\ ~Truthy(d.content)
    /\ d.mentions.items = <<>>
    /\ d.location.none

\* C7: content or attachments, either one sufficing.  Such a draft fails
\* neither in validate nor in before_save, and before_save leaves a preview
\* whose attachment_count is the number of its attachments.
C7_AttachmentsSuffice ==
    C7_Draft(ins.draft) =>
        /\ ~(ins.pc = "failed" /\ ins.at \in {"validate", "before_save"})
        /\ ins.pc \in {"before_saved", "inserted", "after_inserted", "done"} =>
              /\ ins.doc.preview # <<>>
              /\ ins.doc.preview[1].attachment_count = Len(ins.draft.attachments)

\* what the feed may show to user, in the words of the claim
C8_Allowed(user, m) ==
    \/ m.privacy = "Public"
    \/ /\ m.privacy = "Friends"
       /\ [follower |-> user, following |-> m.author] \in db.Follow
    \/ /\ m.privacy = "Department"
       /\ m.author \in DOMAIN db.Employee
       /\ user \in DOMAIN db.Employee
       /\ db.Employee[m.author] # ""
       /\ db.Employee[m.author] = db.Employee[user]

\* C8: get_moment_feed respects the privacy settings.  Every moment of a
\* response is Public, or Friends with the user following its author, or
\* Department with its author an Employee of the user's department, and never
\* Private; the rows come by posted_date, latest first, no row twice, at most
\* limit of them, and the i-th after at least offset + i - 1 other moments
\* the user may see that are as late or later.
C8_FeedRespectsPrivacy ==
    feed.called =>
        /\ \A i \in 1..Len(feed.rows) :
              /\ feed.rows[i] \in DOMAIN db.Moment
              /\ C8_Allowed(feed.user, db.Moment[feed.rows[i]])
              /\ db.Moment[feed.rows[i]].privacy # "Private"
              /\ Cardinality({ n \in DOMAIN db.Moment \ {feed.rows[i]} :
                                 /\ C8_Allowed(feed.user, db.Moment[n])
                                 /\ db.Moment[n].posted_date
                                       >= db.Moment[feed.rows[i]].posted_date })
                    >= feed.offset + i - 1
        /\ \A i, j \in 1..Len(feed.rows) :
              i < j => /\ feed.rows[i] # feed.rows[j]
                       /\ db.Moment[feed.rows[i]].posted_date
                             >= db.Moment[feed.rows[j]].posted_date
        /\ Len(feed.rows) <= feed.limit

\* U2, who follows U1, asks for the second row of the feed and gets U1's
\* Friends moment, the earlier of the two moments
C8_Witness ==
    /\ feed.called
    /\ feed.user = U2
    /\ feed.offset = 1
    /\ Len(feed.rows) = 1
    /\ db.Moment[feed.rows[1]].privacy = "Friends"
    /\ db.Moment[feed.rows[1]].author = U1
    /\ \E n \in DOMAIN db.Moment :
          db.Moment[n].posted_date > db.Moment[feed.rows[1]].posted_date

\* C9: unlike_moment only undoes an existing like.  With the calls run one at
\* a time, a finished unlike_moment call has succeeded; if a Moment Like row
\* of its moment and caller existed, exactly one such row is gone and the
\* likes_count is one lower but not below 0; if none existed, the rows and the
\* likes_count are as they were; the call returns the likes_count.
C9_UnlikeUndoesLike ==
    \A r \in Slots :
        Finished(r, "unlike") =>
            LET n == req[r].doc.name
                before == req[r].base.row.likes_count
                lower == IF OrZero(before) > 1 THEN OrZero(before) - 1 ELSE 0
            IN  /\ req[r].status = "success"
                /\ IF LikedAtCall(r) # {}
                   THEN /\ \E l \in LikedAtCall(r) : db.Like = req[r].base.likes \ {l}
                        /\ db.Moment[n].likes_count = lower
                        /\ req[r].result = lower
                   ELSE /\ db.Like = req[r].base.likes
                        /\ db.Moment[n].likes_count = before
                        /\ req[r].result = before

\* after a lost update left two rows and a count of 1, the second unlike
\* finds the count at 0 and leaves it there
C9_Witness ==
    /\ Finished("r1", "unlike")
    /\ LikedAtCall("r1") # {}
    /\ req["r1"].base.row.likes_count = 0
    /\ req["r1"].result = 0
    /\ db.Moment[req["r1"].doc.name].likes_count = 0
    /\ { l \in db.Like : l.moment = req["r1"].doc.name } = {}

====
